---- MODULE Spec2Model ----
(***************************************************************************)
(* Room / session coordination layer of movinate-backend                   *)
(* (sockets/index.js): the rooms and users maps, the Socket.io message     *)
(* handlers that mutate them, and the consensus check over upvotes.        *)
(*                                                                         *)
(* Every handler runs to completion before the next event is dispatched    *)
(* (single-threaded event loop), so one action is one handler.  A handler  *)
(* that throws stops where the exception is raised: the mutations made     *)
(* before that point stay, the statements after it do not run.  Nothing in *)
(* the program catches the exception, so the process handles no further    *)
(* event after it (raised = TRUE is a final state).                        *)
(*                                                                         *)
(* A JavaScript Set iterates in insertion order, so a room is a sequence   *)
(* without duplicates; rooms and users are plain objects ({}), so a lookup *)
(* rooms[id] also finds the properties inherited from Object.prototype.    *)
(***************************************************************************)
EXTENDS Integers, Sequences, FiniteSets, TLC

\* ------------------------------------------------------------------ bounds
\* Number of connections the transport ever opens (socket ids 1..MaxSockets).
MaxSockets == 3
\* Number of distinct values the random source yields in getIdString.
NumIds == 2
\* Number of distinct media items clients vote on.
MaxItems == 1
\* Number of events dispatched to the handlers in one run.
MaxEvents == 6

VARIABLES
    rooms,      \* room id -> sequence of socket ids (a Set, in insertion order)
    users,      \* socket id -> User record
    connected,  \* sockets whose handlers are registered and that are open
    opened,     \* number of connections accepted so far
    joined,     \* transport side: socket id -> Socket.io rooms it joined
    out,        \* what the last handler sent: replies and broadcasts, in order
    ev,         \* the event the last handler was dispatched for
    raised,     \* the last handler threw (uncaught)
    lastCount,  \* room id -> count of the last userCount broadcast to it
    checks,     \* <<socket id, item>> pairs whose upvote ran checkConsensus
    gen,        \* the generateRoomId call in progress, when followed draw by draw
    steps       \* number of events dispatched so far

vars == <<rooms, users, connected, opened, joined, out, ev, raised, lastCount, checks, gen, steps>>

\* ------------------------------------------------------------- input values
Sockets == 1..MaxSockets

\* JavaScript values a client can send, tagged with their type.
Undefined  == [t |-> "undefined", v |-> ""]
EmptyStr   == [t |-> "string", v |-> ""]
PlexObject == [t |-> "object", v |-> "https://plex.tv"]
EmptyObject == [t |-> "object", v |-> ""]
BadValues  == { [t |-> "boolean", v |-> "false"], [t |-> "number", v |-> "1234"],
                [t |-> "array", v |-> "Bad,String"], [t |-> "string", v |-> "Bad string"],
                [t |-> "null", v |-> ""] }
Payloads   == {PlexObject, EmptyObject} \cup BadValues

Items == {"item" \o ToString(i) : i \in 1..MaxItems}

\* Property names every plain object inherits from Object.prototype
\* (constructor, toString, __proto__, ...); one stands for all of them.
ProtoKeys == {"constructor"}

Nil == "nil"

\* ------------------------------------------------------------ pure helpers
HexChars == <<"0","1","2","3","4","5","6","7","8","9","a","b","c","d","e","f">>

toUpperCase(c) ==
    CASE c = "a" -> "A" [] c = "b" -> "B" [] c = "c" -> "C"
      [] c = "d" -> "D" [] c = "e" -> "E" [] c = "f" -> "F"
      [] OTHER -> c

\* Buffer.toString("hex") of one byte: two lower-case hex digits.
ByteToHex(b) == <<HexChars[(b \div 16) + 1], HexChars[(b % 16) + 1]>>

\* The 16-bit words the random source yields (crypto.randomBytes(2)).
RandomWords == {(k * 43981) % 65536 : k \in 1..NumIds}

\* crypto.randomBytes(2).toString("hex").toUpperCase() of the word w.
getIdString(w) ==
    LET hex == ByteToHex(w \div 256) \o ByteToHex(w % 256)
    IN  toUpperCase(hex[1]) \o toUpperCase(hex[2]) \o toUpperCase(hex[3]) \o toUpperCase(hex[4])

IdStrings == {getIdString(w) : w \in RandomWords}

\* Room ids a client can send with joinRoom / requestUserCount.
RoomArgs == IdStrings \cup ProtoKeys

\* Object.prototype.hasOwnProperty.call(rooms, id)
hasOwnProperty(rs, id) == id \in DOMAIN rs

\* Truthiness of rooms[id]: an own room, or a property inherited from
\* Object.prototype (a function or object, never a Set).
RoomsTruthy(rs, id) == hasOwnProperty(rs, id) \/ id \in ProtoKeys

\* Set.prototype.add / delete / size on the insertion-ordered member list.
SetHas(seq, x) == \E i \in 1..Len(seq) : seq[i] = x
SetAdd(seq, x) == IF SetHas(seq, x) THEN seq ELSE Append(seq, x)
SetDelete(seq, x) == SelectSeq(seq, LAMBDA y : y # x)
Members(rs, id) == {rs[id][i] : i \in 1..Len(rs[id])}

\* delete obj[k]
DeleteKey(f, k) == [x \in (DOMAIN f) \ {k} |-> f[x]]
\* obj[k] = v
SetKey(f, k, v) == (k :> v) @@ f

\* ----------------------------------------------------------------- outputs
\* callback(body): the acknowledgement sent back to the calling socket.
Reply(s, body) == [kind |-> "reply", sock |-> s, body |-> body]
\* io.to(id).emit(name, body): a broadcast to a Socket.io room.
Broadcast(name, id, body) == [kind |-> name, room |-> id, body |-> body]

\* What a handler leaves behind: the maps, the transport's room membership,
\* the messages it sent, and whether it ended by throwing.
Outcome(rs, us, jn, o, threw) ==
    [rooms |-> rs, users |-> us, joined |-> jn, out |-> o, raised |-> threw]

\* ------------------------------------------------------------ program code
createUser(roomId) ==
    [roomId |-> roomId, server |-> EmptyStr, library |-> EmptyStr, upvoted |-> {}]

\* Object.getPrototypeOf(parameter): the prototype of the value, primitives
\* taken through their wrapper objects.
getPrototypeOf(parameter) ==
    CASE parameter.t = "object"  -> "Object.prototype"
      [] parameter.t = "array"   -> "Array.prototype"
      [] parameter.t = "string"  -> "String.prototype"
      [] parameter.t = "number"  -> "Number.prototype"
      [] parameter.t = "boolean" -> "Boolean.prototype"
      [] OTHER -> "TypeError"

\* isObject with typeof parameter == "object" in place of the prototype test:
\* arrays and null pass.
isObjectTypeof(parameter) == parameter.t \in {"object", "array", "null"}

\* parameter != null && Object.getPrototypeOf(parameter) == Object.prototype
\* (null and undefined are both == null).
isObject(parameter) ==
    /\ parameter.t \notin {"null", "undefined"}
    /\ getPrototypeOf(parameter) = "Object.prototype"

\* generateRoomId without the collision test: any drawn id is returned.
generateRoomIdUnchecked(rs) == IdStrings

\* The ids generateRoomId can return: it redraws while the drawn id is an
\* own property of rooms, so it returns a drawn id that is not.
generateRoomId(rs) == {id \in IdStrings : ~hasOwnProperty(rs, id)}

\* let count = rooms[id]?.size || -1 ; io.to(id).emit("userCount", {count})
emitRoomUserCount(rs, id) ==
    LET size  == IF hasOwnProperty(rs, id) THEN Len(rs[id]) ELSE 0
        count == IF size # 0 THEN size ELSE -1
    IN  Broadcast("userCount", id, [count |-> count])

\* users[rooms[id].values().next().value], then its server and library.
\* Reading .server of a missing user throws.
getPlexInformationForRoom(rs, us, id) ==
    IF RoomsTruthy(rs, id)
    THEN LET first == IF hasOwnProperty(rs, id) /\ rs[id] # <<>> THEN Head(rs[id]) ELSE 0
         IN  IF first \in DOMAIN us
             THEN [threw |-> FALSE, server |-> us[first].server, library |-> us[first].library]
             ELSE [threw |-> TRUE, server |-> Undefined, library |-> Undefined]
    ELSE \* returns undefined: the caller's destructuring throws
         [threw |-> TRUE, server |-> Undefined, library |-> Undefined]

\* every() replaced by some(): one member having upvoted is enough.
RECURSIVE everySome(_, _, _)
everySome(usersInRoom, us, mediaId) ==
    IF usersInRoom = <<>> THEN "false"
    ELSE IF Head(usersInRoom) \notin DOMAIN us THEN "throw"
    ELSE IF mediaId \in us[Head(usersInRoom)].upvoted THEN "true"
    ELSE everySome(Tail(usersInRoom), us, mediaId)

\* usersInRoom.every(socketId => users[socketId].upvoted.has(mediaId)):
\* in insertion order, stopping at the first false; a member without a
\* user record makes the callback throw.
RECURSIVE every(_, _, _)
every(usersInRoom, us, mediaId) ==
    IF usersInRoom = <<>> THEN "true"
    ELSE IF Head(usersInRoom) \notin DOMAIN us THEN "throw"
    ELSE IF mediaId \notin us[Head(usersInRoom)].upvoted THEN "false"
    ELSE every(Tail(usersInRoom), us, mediaId)

\* The result of checkConsensus: the broadcasts it sends and whether it threw.
\* user.roomId is always a generated id, never an inherited property name.
checkConsensus(rs, us, roomId, mediaId) ==
    IF ~hasOwnProperty(rs, roomId)
    THEN [threw |-> FALSE, out |-> <<>>]
    ELSE LET reached == every(rs[roomId], us, mediaId)
         IN  CASE reached = "throw" -> [threw |-> TRUE, out |-> <<>>]
               [] reached = "true"  ->
                    [threw |-> FALSE,
                     out |-> <<Broadcast("consensusReached", roomId, [id |-> mediaId])>>]
               [] OTHER -> [threw |-> FALSE, out |-> <<>>]

\* ---------------------------------------------------------------- handlers
\* Each handler as a function of the state before it: the Outcome it leaves.

\* disconnect that broadcasts the count read before the member is removed.
disconnectCountsBefore(rs, us, jn, s) ==
    LET jn1 == [jn EXCEPT ![s] = {}]
    IN  IF s \in DOMAIN us
        THEN LET id == us[s].roomId
             IN  IF hasOwnProperty(rs, id)
                 THEN LET left == SetDelete(rs[id], s)
                      IN  IF Len(left) = 0
                          THEN Outcome(DeleteKey(rs, id), DeleteKey(us, s), jn1, <<>>, FALSE)
                          ELSE Outcome([rs EXCEPT ![id] = left], DeleteKey(us, s), jn1,
                                       <<emitRoomUserCount(rs, id)>>, FALSE)
                 ELSE Outcome(rs, DeleteKey(us, s), jn1, <<>>, FALSE)
        ELSE Outcome(rs, us, jn1, <<>>, FALSE)

\* disconnect that deletes the room of the leaving member whoever remains.
disconnectDropsRoom(rs, us, jn, s) ==
    LET jn1 == [jn EXCEPT ![s] = {}]
    IN  IF s \in DOMAIN us
        THEN LET id == us[s].roomId
             IN  IF hasOwnProperty(rs, id)
                 THEN Outcome(DeleteKey(rs, id), DeleteKey(us, s), jn1, <<>>, FALSE)
                 ELSE Outcome(rs, DeleteKey(us, s), jn1, <<>>, FALSE)
        ELSE Outcome(rs, us, jn1, <<>>, FALSE)

\* disconnect that, after the count, checks the room that remains for an
\* item every remaining member has upvoted.
disconnectChecksConsensus(rs, us, jn, s) ==
    LET jn1 == [jn EXCEPT ![s] = {}]
    IN  IF s \in DOMAIN us
        THEN LET id == us[s].roomId
             IN  IF hasOwnProperty(rs, id)
                 THEN LET left == SetDelete(rs[id], s)
                      IN  IF Len(left) = 0
                          THEN Outcome(DeleteKey(rs, id), DeleteKey(us, s), jn1, <<>>, FALSE)
                          ELSE LET rs1  == [rs EXCEPT ![id] = left]
                                   us1  == DeleteKey(us, s)
                                   done == {it \in Items :
                                              checkConsensus(rs1, us1, id, it).out # <<>>}
                               IN  Outcome(rs1, us1, jn1,
                                           <<emitRoomUserCount(rs1, id)>> \o
                                           (IF done = {} THEN <<>>
                                            ELSE checkConsensus(rs1, us1, id,
                                                                CHOOSE it \in done : TRUE).out),
                                           FALSE)
                 ELSE Outcome(rs, DeleteKey(us, s), jn1, <<>>, FALSE)
        ELSE Outcome(rs, us, jn1, <<>>, FALSE)

\* disconnect without the deletion of a room that became empty.
disconnectKeepsRoom(rs, us, jn, s) ==
    LET jn1 == [jn EXCEPT ![s] = {}]
    IN  IF s \in DOMAIN us
        THEN LET id == us[s].roomId
             IN  IF hasOwnProperty(rs, id)
                 THEN LET rs1 == [rs EXCEPT ![id] = SetDelete(@, s)]
                      IN  Outcome(rs1, DeleteKey(us, s), jn1,
                                  <<emitRoomUserCount(rs1, id)>>, FALSE)
                 ELSE Outcome(rs, DeleteKey(us, s), jn1, <<>>, FALSE)
        ELSE Outcome(rs, us, jn1, <<>>, FALSE)

\* socket.on("disconnect"): the transport has already taken the socket out of
\* its Socket.io rooms when the handler runs.
disconnect(rs, us, jn, s) ==
    LET jn1 == [jn EXCEPT ![s] = {}]
    IN  IF s \in DOMAIN us
        THEN LET id == us[s].roomId
             IN  IF hasOwnProperty(rs, id)
                 THEN LET left == SetDelete(rs[id], s)
                      IN  IF Len(left) = 0
                          THEN Outcome(DeleteKey(rs, id), DeleteKey(us, s), jn1, <<>>, FALSE)
                          ELSE LET rs1 == [rs EXCEPT ![id] = left]
                               IN  Outcome(rs1, DeleteKey(us, s), jn1,
                                           <<emitRoomUserCount(rs1, id)>>, FALSE)
                 ELSE Outcome(rs, DeleteKey(us, s), jn1, <<>>, FALSE)
        ELSE Outcome(rs, us, jn1, <<>>, FALSE)

\* socket.on("createRoom"), with id the value generateRoomId returned.
createRoom(rs, us, jn, s, id) ==
    LET rs1 == SetKey(rs, id, <<s>>)
        us1 == SetKey(us, s, createUser(id))
        jn1 == [jn EXCEPT ![s] = @ \cup {id}]
    IN  Outcome(rs1, us1, jn1,
                <<Reply(s, [id |-> id]), emitRoomUserCount(rs1, id)>>, FALSE)

\* socket.on("joinRoom")
joinRoom(rs, us, jn, s, id) ==
    IF RoomsTruthy(rs, id)
    THEN IF ~hasOwnProperty(rs, id)
         THEN \* rooms[id] is an inherited property: rooms[id].add is not a function
              Outcome(rs, us, jn, <<>>, TRUE)
         ELSE LET rs1  == [rs EXCEPT ![id] = SetAdd(@, s)]
                  us1  == SetKey(us, s, createUser(id))
                  plex == getPlexInformationForRoom(rs1, us1, id)
              IN  IF plex.threw
                  THEN Outcome(rs1, us1, jn, <<>>, TRUE)
                  ELSE LET us2 == [us1 EXCEPT ![s].server = plex.server,
                                              ![s].library = plex.library]
                           jn1 == [jn EXCEPT ![s] = @ \cup {id}]
                       IN  Outcome(rs1, us2, jn1,
                                   <<Reply(s, [success |-> TRUE, server |-> plex.server,
                                               library |-> plex.library]),
                                     emitRoomUserCount(rs1, id)>>, FALSE)
    ELSE Outcome(rs, us, jn,
                 <<Reply(s, [success |-> FALSE, message |-> "Unable to find room"])>>, FALSE)

\* setUserServer that writes the new value into the server object the record
\* holds, the object the members that joined after it hold too.
setUserServerShared(rs, us, jn, s, server) ==
    IF s \in DOMAIN us
    THEN IF isObject(server)
         THEN Outcome(rs,
                      [u \in DOMAIN us |->
                         IF u = s \/ (us[u].roomId = us[s].roomId /\ isObject(us[s].server)
                                      /\ us[u].server = us[s].server)
                         THEN [us[u] EXCEPT !.server = server]
                         ELSE us[u]],
                      jn,
                      <<Reply(s, [success |-> TRUE, message |-> "Updated the server"])>>, FALSE)
         ELSE Outcome(rs, us, jn,
                      <<Reply(s, [success |-> FALSE, message |-> "Invalid server object"])>>, FALSE)
    ELSE Outcome(rs, us, jn,
                 <<Reply(s, [success |-> FALSE, message |-> "Unable to find user"])>>, FALSE)

\* socket.on("setUserServer")
setUserServer(rs, us, jn, s, server) ==
    IF s \in DOMAIN us
    THEN IF isObject(server)
         THEN Outcome(rs, [us EXCEPT ![s].server = server], jn,
                      <<Reply(s, [success |-> TRUE, message |-> "Updated the server"])>>, FALSE)
         ELSE Outcome(rs, us, jn,
                      <<Reply(s, [success |-> FALSE, message |-> "Invalid server object"])>>, FALSE)
    ELSE Outcome(rs, us, jn,
                 <<Reply(s, [success |-> FALSE, message |-> "Unable to find user"])>>, FALSE)

\* socket.on("setUserLibrary")
setUserLibrary(rs, us, jn, s, library) ==
    IF s \in DOMAIN us
    THEN IF isObject(library)
         THEN Outcome(rs, [us EXCEPT ![s].library = library], jn,
                      <<Reply(s, [success |-> TRUE, message |-> "Updated the library"])>>, FALSE)
         ELSE Outcome(rs, us, jn,
                      <<Reply(s, [success |-> FALSE, message |-> "Invalid library object"])>>, FALSE)
    ELSE Outcome(rs, us, jn,
                 <<Reply(s, [success |-> FALSE, message |-> "Unable to find user"])>>, FALSE)

\* socket.on("requestUserCount")
requestUserCount(rs, us, jn, s, id) ==
    IF RoomsTruthy(rs, id)
    THEN Outcome(rs, us, jn, <<emitRoomUserCount(rs, id)>>, FALSE)
    ELSE Outcome(rs, us, jn, <<>>, FALSE)

\* upvote on an upvoted Set that the records of one room share: the vote
\* lands in the set of every member of the voter's room.
upvoteSharedSet(rs, us, jn, s, id, callback) ==
    IF s \in DOMAIN us
    THEN IF id \notin us[s].upvoted
         THEN LET us1   == [u \in DOMAIN us |->
                              IF us[u].roomId = us[s].roomId
                              THEN [us[u] EXCEPT !.upvoted = @ \cup {id}]
                              ELSE us[u]]
                  ack   == IF callback
                           THEN <<Reply(s, [success |-> TRUE, message |-> "Upvoted successfully."])>>
                           ELSE <<>>
                  check == checkConsensus(rs, us1, us1[s].roomId, id)
              IN  Outcome(rs, us1, jn, ack \o check.out, check.threw)
         ELSE Outcome(rs, us, jn, <<>>, FALSE)
    ELSE IF callback
         THEN Outcome(rs, us, jn,
                      <<Reply(s, [success |-> FALSE, message |-> "Unable to find user"])>>, FALSE)
         ELSE Outcome(rs, us, jn, <<>>, TRUE)

\* upvote that acknowledges after checkConsensus instead of before it.
upvoteAcksLast(rs, us, jn, s, id, callback) ==
    IF s \in DOMAIN us
    THEN IF id \notin us[s].upvoted
         THEN LET us1   == [us EXCEPT ![s].upvoted = @ \cup {id}]
                  check == checkConsensus(rs, us1, us1[s].roomId, id)
                  ack   == IF callback /\ ~check.threw
                           THEN <<Reply(s, [success |-> TRUE, message |-> "Upvoted successfully."])>>
                           ELSE <<>>
              IN  Outcome(rs, us1, jn, check.out \o ack, check.threw)
         ELSE Outcome(rs, us, jn, <<>>, FALSE)
    ELSE IF callback
         THEN Outcome(rs, us, jn,
                      <<Reply(s, [success |-> FALSE, message |-> "Unable to find user"])>>, FALSE)
         ELSE Outcome(rs, us, jn, <<>>, TRUE)

\* upvote with the consensus check made before the vote is recorded.
upvoteChecksFirst(rs, us, jn, s, id, callback) ==
    IF s \in DOMAIN us
    THEN IF id \notin us[s].upvoted
         THEN LET us1   == [us EXCEPT ![s].upvoted = @ \cup {id}]
                  ack   == IF callback
                           THEN <<Reply(s, [success |-> TRUE, message |-> "Upvoted successfully."])>>
                           ELSE <<>>
                  check == checkConsensus(rs, us, us[s].roomId, id)
              IN  Outcome(rs, us1, jn, ack \o check.out, check.threw)
         ELSE Outcome(rs, us, jn, <<>>, FALSE)
    ELSE IF callback
         THEN Outcome(rs, us, jn,
                      <<Reply(s, [success |-> FALSE, message |-> "Unable to find user"])>>, FALSE)
         ELSE Outcome(rs, us, jn, <<>>, TRUE)

\* socket.on("upvote"); callback tells whether the client supplied an
\* acknowledgement function.
upvote(rs, us, jn, s, id, callback) ==
    IF s \in DOMAIN us
    THEN IF id \notin us[s].upvoted
         THEN LET us1   == [us EXCEPT ![s].upvoted = @ \cup {id}]
                  ack   == IF callback
                           THEN <<Reply(s, [success |-> TRUE, message |-> "Upvoted successfully."])>>
                           ELSE <<>>
                  check == checkConsensus(rs, us1, us1[s].roomId, id)
              IN  Outcome(rs, us1, jn, ack \o check.out, check.threw)
         ELSE Outcome(rs, us, jn, <<>>, FALSE)
    ELSE IF callback
         THEN Outcome(rs, us, jn,
                      <<Reply(s, [success |-> FALSE, message |-> "Unable to find user"])>>, FALSE)
         ELSE \* callback is undefined and is called all the same
              Outcome(rs, us, jn, <<>>, TRUE)

\* ------------------------------------------------------------ state machine
Event(op, s, room, val, item, cb) ==
    [op |-> op, sock |-> s, room |-> room, val |-> val, item |-> item, cb |-> cb]

\* The count of the last userCount broadcast sent to each room id.
RECURSIVE NoteCounts(_, _)
NoteCounts(lc, o) ==
    IF o = <<>> THEN lc
    ELSE IF Head(o).kind = "userCount"
         THEN NoteCounts(SetKey(lc, Head(o).room, Head(o).body.count), Tail(o))
         ELSE NoteCounts(lc, Tail(o))

\* The handler dispatched for event e ran and left outcome oc.
Handled(oc, e) ==
    /\ rooms' = oc.rooms
    /\ users' = oc.users
    /\ joined' = oc.joined
    /\ out' = oc.out
    /\ raised' = oc.raised
    /\ lastCount' = NoteCounts(lastCount, oc.out)
    /\ ev' = e
    /\ steps' = steps + 1

\* The process is alive and the run has events left.
Dispatching == ~raised /\ steps < MaxEvents /\ gen.pc = "idle"

Init ==
    /\ rooms = [id \in {} |-> <<>>]
    /\ users = [s \in {} |-> createUser(Nil)]
    /\ connected = {}
    /\ opened = 0
    /\ joined = [s \in Sockets |-> {}]
    /\ out = <<>>
    /\ ev = Event("init", 0, Nil, Undefined, Nil, FALSE)
    /\ raised = FALSE
    /\ lastCount = [id \in {} |-> 0]
    /\ checks = {}
    /\ gen = [pc |-> "idle", sock |-> 0, id |-> Nil, collided |-> FALSE]
    /\ steps = 0

\* io.on("connection"): the transport assigns the next socket id and the
\* handlers are registered for it.
Connection ==
    /\ Dispatching
    /\ opened < MaxSockets
    /\ opened' = opened + 1
    /\ connected' = connected \cup {opened + 1}
    /\ UNCHANGED <<checks, gen>>
    /\ Handled(Outcome(rooms, users, joined, <<>>, FALSE),
               Event("connection", opened + 1, Nil, Undefined, Nil, FALSE))

Disconnect(s) ==
    /\ Dispatching
    /\ s \in connected
    /\ connected' = connected \ {s}
    /\ UNCHANGED <<opened, checks, gen>>
    /\ Handled(disconnect(rooms, users, joined, s),
               Event("disconnect", s, Nil, Undefined, Nil, FALSE))

CreateRoom(s) ==
    /\ Dispatching
    /\ s \in connected
    /\ \/ \E id \in generateRoomId(rooms) :
             Handled(createRoom(rooms, users, joined, s, id),
                     Event("createRoom", s, id, Undefined, Nil, TRUE))
       \/ \* Every id the random source yields is in use: each draw collides
          \* and generateRoomId calls itself again, so it returns no id; the
          \* handler ends when the call stack is exhausted (RangeError).
          /\ generateRoomId(rooms) = {}
          /\ Handled(Outcome(rooms, users, joined, <<>>, TRUE),
                     Event("createRoom", s, Nil, Undefined, Nil, TRUE))
    /\ UNCHANGED <<connected, opened, checks, gen>>

JoinRoom(s, id) ==
    /\ Dispatching
    /\ s \in connected
    /\ Handled(joinRoom(rooms, users, joined, s, id),
               Event("joinRoom", s, id, Undefined, Nil, TRUE))
    /\ UNCHANGED <<connected, opened, checks, gen>>

SetUserServer(s, value) ==
    /\ Dispatching
    /\ s \in connected
    /\ Handled(setUserServer(rooms, users, joined, s, value),
               Event("setUserServer", s, Nil, value, Nil, TRUE))
    /\ UNCHANGED <<connected, opened, checks, gen>>

SetUserLibrary(s, value) ==
    /\ Dispatching
    /\ s \in connected
    /\ Handled(setUserLibrary(rooms, users, joined, s, value),
               Event("setUserLibrary", s, Nil, value, Nil, TRUE))
    /\ UNCHANGED <<connected, opened, checks, gen>>

RequestUserCount(s, id) ==
    /\ Dispatching
    /\ s \in connected
    /\ Handled(requestUserCount(rooms, users, joined, s, id),
               Event("requestUserCount", s, id, Undefined, Nil, FALSE))
    /\ UNCHANGED <<connected, opened, checks, gen>>

Upvote(s, item, cb) ==
    /\ Dispatching
    /\ s \in connected
    /\ Handled(upvote(rooms, users, joined, s, item, cb),
               Event("upvote", s, Nil, Undefined, item, cb))
    /\ checks' = IF s \in DOMAIN users /\ item \notin users[s].upvoted
                 THEN checks \cup {<<s, item>>}
                 ELSE checks
    /\ UNCHANGED <<connected, opened, gen>>

Next ==
    \/ Connection
    \/ \E s \in Sockets : Disconnect(s)
    \/ \E s \in Sockets : CreateRoom(s)
    \/ \E s \in Sockets, id \in RoomArgs : JoinRoom(s, id)
    \/ \E s \in Sockets, value \in Payloads : SetUserServer(s, value)
    \/ \E s \in Sockets, value \in Payloads : SetUserLibrary(s, value)
    \/ \E s \in Sockets, id \in RoomArgs : RequestUserCount(s, id)
    \/ \E s \in Sockets, item \in Items, cb \in BOOLEAN : Upvote(s, item, cb)

Spec == Init /\ [][Next]_vars

\* ------------------------------------------- generateRoomId, draw by draw
\* The room registry with createRoom split at the calls of generateRoomId:
\* one step per draw of getIdString.  No other handler runs while a call is
\* in progress.  The depth of the recursion is not bounded here.

\* socket.on("createRoom") is dispatched and calls generateRoomId.
BeginCreateRoom(s) ==
    /\ Dispatching
    /\ s \in connected
    /\ gen' = [pc |-> "drawing", sock |-> s, id |-> Nil, collided |-> FALSE]
    /\ UNCHANGED <<rooms, users, connected, opened, joined, out, ev, raised,
                   lastCount, checks, steps>>

\* let id = getIdString() drew word w and the id is in use:
\* return generateRoomId()
DrawCollides(w) ==
    /\ gen.pc = "drawing"
    /\ \E id \in {getIdString(w)} :
          /\ id \notin generateRoomId(rooms)
          /\ gen' = [gen EXCEPT !.id = id, !.collided = TRUE]
    /\ UNCHANGED <<rooms, users, connected, opened, joined, out, ev, raised,
                   lastCount, checks, steps>>

\* let id = getIdString() drew word w and generateRoomId returns the id:
\* the rest of the createRoom handler runs.
DrawReturns(w) ==
    /\ gen.pc = "drawing"
    /\ \E id \in {getIdString(w)} :
          /\ id \in generateRoomId(rooms)
          /\ gen' = [gen EXCEPT !.pc = "idle", !.id = id]
          /\ Handled(createRoom(rooms, users, joined, gen.sock, id),
                     Event("createRoom", gen.sock, id, Undefined, Nil, TRUE))
    /\ UNCHANGED <<connected, opened, checks>>

\* Some draw returns an id.
Returns == \E w \in RandomWords : DrawReturns(w)

NextGen ==
    \/ Connection
    \/ \E s \in Sockets : Disconnect(s)
    \/ \E s \in Sockets : BeginCreateRoom(s)
    \/ \E w \in RandomWords : DrawCollides(w)
    \/ Returns

\* The draws are random and independent: while an id that is not in use
\* can be drawn, it is drawn at some point.
SpecGen == Init /\ [][NextGen]_vars /\ WF_vars(Returns)

\* State shape.
TypeOK ==
    /\ DOMAIN rooms \subseteq IdStrings
    /\ DOMAIN users \subseteq Sockets
    /\ \A s \in DOMAIN users : users[s].roomId \in IdStrings /\ users[s].upvoted \subseteq Items
    /\ connected \subseteq 1..opened
    /\ raised \in BOOLEAN

\* ------------------------------------------------------------------ claims
\* The consensusReached broadcasts the last handler sent.
ConsensusSent == SelectSeq(out, LAMBDA o : o.kind = "consensusReached")
\* The userCount broadcasts the last handler sent.
CountsSent == SelectSeq(out, LAMBDA o : o.kind = "userCount")
\* The acknowledgements the last handler sent.
RepliesSent == SelectSeq(out, LAMBDA o : o.kind = "reply")
\* Member m of a room has a user record whose upvoted set holds item.
HasUpvoted(us, m, item) == m \in DOMAIN us /\ item \in us[m].upvoted
\* The sockets whose record names room id as their room.
Owned(us, id) == {m \in DOMAIN us : us[m].roomId = id}

\* C1: a consensusReached broadcast for an item goes to a live room only when,
\* at that moment, every member in the room's member set (and every member
\* whose record names the room) has the item in its own upvoted set.
C1_ConsensusOnlyIfUnanimous ==
    \A i \in 1..Len(out) :
        out[i].kind = "consensusReached" =>
            /\ hasOwnProperty(rooms, out[i].room)
            /\ \A m \in Members(rooms, out[i].room) : HasUpvoted(users, m, out[i].body.id)
            /\ \A m \in Owned(users, out[i].room) : HasUpvoted(users, m, out[i].body.id)

\* C1 witness: consensus was broadcast to a room of two members.
C1_Witness ==
    /\ Len(ConsensusSent) = 1
    /\ Len(rooms[ConsensusSent[1].room]) = 2

\* C2: the upvote that newly adds an item and thereby makes every member of
\* the voter's room have upvoted it broadcasts exactly one consensusReached
\* for that item to that room.
C2_UnanimousVoteSignals ==
    [][ ( /\ ev'.op = "upvote"
          /\ ev'.sock \in DOMAIN users
          /\ ev'.item \notin users[ev'.sock].upvoted
          /\ hasOwnProperty(rooms', users'[ev'.sock].roomId)
          /\ \A m \in Members(rooms', users'[ev'.sock].roomId) :
                HasUpvoted(users', m, ev'.item) )
        => ( /\ ~raised'
             /\ ConsensusSent' =
                  <<Broadcast("consensusReached", users'[ev'.sock].roomId, [id |-> ev'.item])>> )
      ]_vars

\* C2 witness: the second member of a two-member room cast the completing
\* vote without an acknowledgement callback.
C2_Witness ==
    /\ ev.op = "upvote" /\ ~ev.cb
    /\ ev.sock \in DOMAIN users
    /\ hasOwnProperty(rooms, users[ev.sock].roomId)
    /\ Len(rooms[users[ev.sock].roomId]) = 2
    /\ \A m \in Members(rooms, users[ev.sock].roomId) : HasUpvoted(users, m, ev.item)
    /\ out # <<>>

\* C3: no socket id is in the member set of two different live rooms.
C3_AtMostOneRoom ==
    \A r1 \in DOMAIN rooms, r2 \in DOMAIN rooms :
        r1 # r2 => Members(rooms, r1) \cap Members(rooms, r2) = {}

\* C4: every id in a live room's member set is a connected socket that has a
\* user record.
C4_MembersAreConnected ==
    \A r \in DOMAIN rooms : \A m \in Members(rooms, r) :
        m \in connected /\ m \in DOMAIN users

\* C5: no live room has an empty member set; a room just created holds
\* exactly its creator.
C5_NoEmptyRoom ==
    /\ \A r \in DOMAIN rooms : rooms[r] # <<>>
    /\ (ev.op = "createRoom" /\ ~raised => rooms[ev.room] = <<ev.sock>>)

\* C5 witness: a disconnect removed the last member of the only room, and the
\* room is gone.
C5_Witness ==
    /\ ev.op = "disconnect"
    /\ DOMAIN lastCount # {}
    /\ DOMAIN rooms = {}
    /\ ev.sock \notin DOMAIN users

\* C6: every live room's member set size equals the count of the last
\* userCount broadcast sent to that room.
C6_CountMatchesBroadcast ==
    \A r \in DOMAIN rooms :
        r \in DOMAIN lastCount /\ lastCount[r] = Len(rooms[r])

\* C7: createRoom uses an id that named no live room when it was called, and
\* leaves every room that was live as it was.
C7_FreshRoomId ==
    [][ (ev'.op = "createRoom" /\ ~raised') =>
          /\ ~hasOwnProperty(rooms, ev'.room)
          /\ \A r \in DOMAIN rooms : hasOwnProperty(rooms', r) /\ rooms'[r] = rooms[r]
          /\ RepliesSent' = <<Reply(ev'.sock, [id |-> ev'.room])>>
      ]_vars

\* C7 witness: a room was created while another room was live.
C7_Witness ==
    /\ ev.op = "createRoom"
    /\ Cardinality(DOMAIN rooms) >= 2

\* C8: joinRoom with an id that names no live room replies success false,
\* changes neither map and broadcasts nothing.
C8_JoinUnknownRoomFails ==
    [][ (ev'.op = "joinRoom" /\ ~hasOwnProperty(rooms, ev'.room)) =>
          /\ Len(out') = 1
          /\ out'[1].kind = "reply" /\ out'[1].sock = ev'.sock
          /\ out'[1].body.success = FALSE
          /\ rooms' = rooms /\ users' = users
          /\ ~raised'
      ]_vars

\* C9: joinRoom on a live room succeeds: the socket is in the room's member
\* set, its record names the room, the reply says success, and a userCount
\* broadcast carries the size after the join.
C9_JoinLiveRoomSucceeds ==
    [][ (ev'.op = "joinRoom" /\ hasOwnProperty(rooms, ev'.room)) =>
          /\ ~raised'
          /\ ev'.sock \in Members(rooms', ev'.room)
          /\ users'[ev'.sock].roomId = ev'.room
          /\ Len(out') = 2
          /\ out'[1].kind = "reply" /\ out'[1].body.success = TRUE
          /\ out'[2] = Broadcast("userCount", ev'.room, [count |-> Len(rooms'[ev'.room])])
      ]_vars

\* C10: the server and library of a successful join reply, and of the
\* joiner's new record, are those that a member already in the room had
\* when the join was handled.
C10_JoinCopiesDescriptors ==
    [][ (ev'.op = "joinRoom" /\ ~raised' /\ out' # <<>> /\ out'[1].body.success = TRUE) =>
          /\ users'[ev'.sock].server = out'[1].body.server
          /\ users'[ev'.sock].library = out'[1].body.library
          /\ \E m \in Members(rooms, ev'.room) :
                /\ m \in DOMAIN users
                /\ users[m].server = out'[1].body.server
                /\ users[m].library = out'[1].body.library
      ]_vars

\* C11: for a socket that has a record, setUserServer / setUserLibrary with
\* false, a number, an array, a string or null replies success false and
\* leaves the record as it was; with a plain object (the empty one included)
\* it replies success true and the targeted descriptor becomes that object.
C11_DescriptorValidation ==
    [][ (ev'.op \in {"setUserServer", "setUserLibrary"} /\ ev'.sock \in DOMAIN users) =>
          /\ ~raised'
          /\ Len(out') = 1 /\ out'[1].kind = "reply" /\ out'[1].sock = ev'.sock
          /\ rooms' = rooms
          /\ IF ev'.val \in BadValues
             THEN out'[1].body.success = FALSE /\ users' = users
             ELSE /\ out'[1].body.success = TRUE
                  /\ users' = IF ev'.op = "setUserServer"
                              THEN [users EXCEPT ![ev'.sock].server = ev'.val]
                              ELSE [users EXCEPT ![ev'.sock].library = ev'.val]
      ]_vars

\* C11 witness: a member whose server is set was sent an array as library
\* and its record still holds the empty string there.
C11_Witness ==
    /\ ev.op = "setUserLibrary" /\ ev.val.t = "array"
    /\ ev.sock \in DOMAIN users
    /\ users[ev.sock].server = EmptyObject
    /\ users[ev.sock].library = EmptyStr
    /\ out[1].body.success = FALSE

\* C12: an upvote of an item already in the voter's upvoted set changes no
\* state, sends no reply and no broadcast; and no socket has checkConsensus
\* run twice for the same item (a second upvote of an item by a socket that
\* already had a check run for it finds the item in its set).
C12_UpvoteIdempotent ==
    [][ (ev'.op = "upvote" /\ ev'.sock \in DOMAIN users) =>
          /\ ev'.item \in users[ev'.sock].upvoted =>
                (rooms' = rooms /\ users' = users /\ out' = <<>> /\ ~raised')
          /\ <<ev'.sock, ev'.item>> \in checks => ev'.item \in users[ev'.sock].upvoted
      ]_vars

\* C13: createRoom never fails: it makes a room that was not live, whose
\* member set is exactly the caller, gives the caller a record that names the
\* room with empty descriptors and no upvotes, replies the room id and
\* broadcasts a userCount of 1 to the room.
C13_CreateRoomNeverFails ==
    [][ ev'.op = "createRoom" =>
          /\ ~raised'
          /\ ~hasOwnProperty(rooms, ev'.room)
          /\ hasOwnProperty(rooms', ev'.room)
          /\ rooms'[ev'.room] = <<ev'.sock>>
          /\ users'[ev'.sock] = createUser(ev'.room)
          /\ out' = <<Reply(ev'.sock, [id |-> ev'.room]),
                      Broadcast("userCount", ev'.room, [count |-> 1])>>
      ]_vars

\* C14: setUserServer, setUserLibrary and upvote from a socket that has no
\* record end with a failure result, not an exception: the acknowledgement,
\* where the client supplied one, says success false, and neither map changes.
C14_NoRecordFails ==
    [][ (ev'.op \in {"setUserServer", "setUserLibrary", "upvote"} /\ ev'.sock \notin DOMAIN users) =>
          /\ ~raised'
          /\ rooms' = rooms /\ users' = users
          /\ ev'.cb => /\ Len(out') = 1
                       /\ out'[1].kind = "reply" /\ out'[1].sock = ev'.sock
                       /\ out'[1].body.success = FALSE
      ]_vars

\* C15: no handler ends by throwing.
C15_NoHandlerRaises == ~raised

\* C16: disconnect of a socket without record changes neither map and sends
\* nothing; disconnect of a socket with a record deletes that record only and
\* takes the socket out of the member set of the room the record names; when
\* members remain there, the room gets one userCount broadcast carrying its
\* size after the removal, and otherwise the room is deleted and nothing sent.
C16_Disconnect ==
    [][ ev'.op = "disconnect" =>
          /\ ~raised'
          /\ IF ev'.sock \notin DOMAIN users
             THEN rooms' = rooms /\ users' = users /\ out' = <<>>
             ELSE LET id == users[ev'.sock].roomId
                  IN  /\ DOMAIN users' = DOMAIN users \ {ev'.sock}
                      /\ \A u \in DOMAIN users' : users'[u] = users[u]
                      /\ hasOwnProperty(rooms, id)
                      /\ \A r \in DOMAIN rooms \ {id} :
                            hasOwnProperty(rooms', r) /\ rooms'[r] = rooms[r]
                      /\ IF Members(rooms, id) \ {ev'.sock} # {}
                         THEN /\ hasOwnProperty(rooms', id)
                              /\ Members(rooms', id) = Members(rooms, id) \ {ev'.sock}
                              /\ out' = <<Broadcast("userCount", id,
                                                    [count |-> Cardinality(Members(rooms', id))])>>
                         ELSE ~hasOwnProperty(rooms', id) /\ out' = <<>>
      ]_vars

\* C16 witness: one of two members disconnected and the room was told that
\* one member is left.
C16_Witness ==
    /\ ev.op = "disconnect"
    /\ ev.sock \notin DOMAIN users
    /\ Len(out) = 1
    /\ out[1].kind = "userCount" /\ out[1].body.count = 1
    /\ Len(rooms[out[1].room]) = 1

\* C17: an upvote, its consensus check included, changes at most the
\* voter's own upvoted set, by adding the item: every other record, the
\* voter's room and descriptors, and every room's member set stay as they were.
C17_UpvoteFrame ==
    [][ ev'.op = "upvote" =>
          /\ rooms' = rooms
          /\ DOMAIN users' = DOMAIN users
          /\ \A u \in DOMAIN users :
                IF u = ev'.sock
                THEN users'[u] = [users[u] EXCEPT !.upvoted = @ \cup {ev'.item}]
                ELSE users'[u] = users[u]
      ]_vars

\* C17 witness: in a room of two, one member has voted and the other's
\* upvoted set is still empty.
C17_Witness ==
    /\ ev.op = "upvote"
    /\ ev.sock \in DOMAIN users
    /\ users[ev.sock].upvoted = {ev.item}
    /\ \E m \in Owned(users, users[ev.sock].roomId) :
          m # ev.sock /\ users[m].upvoted = {}

\* C18: while a socket keeps a record, no event takes an item out of that
\* record's upvoted set.
C18_UpvotedGrows ==
    [][ \A s \in DOMAIN users \cap DOMAIN users' :
            users[s].upvoted \subseteq users'[s].upvoted ]_vars

\* C19: requestUserCount changes neither map and sends no reply; for a live
\* room it broadcasts one userCount carrying the room's member-set size, and
\* for any other id it broadcasts nothing.
C19_RequestUserCount ==
    [][ ev'.op = "requestUserCount" =>
          /\ ~raised'
          /\ rooms' = rooms /\ users' = users
          /\ IF hasOwnProperty(rooms, ev'.room)
             THEN out' = <<Broadcast("userCount", ev'.room, [count |-> Len(rooms[ev'.room])])>>
             ELSE out' = <<>>
      ]_vars

\* Some id of the id space names no live room.
SomeIdFree == \E id \in IdStrings : ~hasOwnProperty(rooms, id)

C21_RecordsAreMembers ==
    \A m \in DOMAIN users :
        /\ hasOwnProperty(rooms, users[m].roomId)
        /\ m \in Members(rooms, users[m].roomId)

\* C21 witness: a member disconnected from a room of two and the member that
\* remains still has its record and its place in the room.
C21_Witness ==
    /\ ev.op = "disconnect"
    /\ \E m \in DOMAIN users :
          /\ m # ev.sock
          /\ Len(out) = 1 /\ out[1].kind = "userCount" /\ out[1].room = users[m].roomId
          /\ m \in Members(rooms, users[m].roomId)

\* C22: a consensusReached broadcast is sent only by the handler of an upvote
\* whose item was not yet in the voter's upvoted set, for that item, and to
\* the room the voter's record names; no other handler sends one.
C22_ConsensusOnlyFromNewUpvote ==
    [][ \A i \in 1..Len(out') :
          out'[i].kind = "consensusReached" =>
             /\ ev'.op = "upvote"
             /\ ev'.sock \in DOMAIN users
             /\ ev'.item \notin users[ev'.sock].upvoted
             /\ out'[i].body.id = ev'.item
             /\ out'[i].room = users'[ev'.sock].roomId
             /\ users'[ev'.sock].roomId = users[ev'.sock].roomId ]_vars

\* C22 witness: a disconnect left a room whose remaining members have all
\* upvoted one item, and the handler sent the count and nothing else.
C22_Witness ==
    /\ ev.op = "disconnect"
    /\ Len(out) = 1 /\ out[1].kind = "userCount"
    /\ hasOwnProperty(rooms, out[1].room)
    /\ \E it \in Items :
          \A m \in Members(rooms, out[1].room) : HasUpvoted(users, m, it)

\* C23: a setUserServer (setUserLibrary) that replied success changed the
\* server (library) of the sender's record and nothing else: every other
\* record, the sender's other descriptor, roomId and upvoted set, and every
\* room's member set are as before.
C23_DescriptorFrame ==
    [][ ( /\ ev'.op \in {"setUserServer", "setUserLibrary"}
          /\ Len(out') = 1 /\ out'[1].kind = "reply" /\ out'[1].body.success ) =>
          /\ rooms' = rooms
          /\ joined' = joined
          /\ ev'.sock \in DOMAIN users
          /\ DOMAIN users' = DOMAIN users
          /\ \A u \in DOMAIN users :
                IF u # ev'.sock THEN users'[u] = users[u]
                ELSE /\ users'[u].roomId = users[u].roomId
                     /\ users'[u].upvoted = users[u].upvoted
                     /\ IF ev'.op = "setUserServer"
                        THEN users'[u].server = ev'.val /\ users'[u].library = users[u].library
                        ELSE users'[u].library = ev'.val /\ users'[u].server = users[u].server ]_vars

\* C23 witness: after a successful setUserServer the sender's server differs
\* from the server of another member of its room, which holds a server object.
C23_Witness ==
    /\ ev.op = "setUserServer"
    /\ Len(out) = 1 /\ out[1].kind = "reply" /\ out[1].body.success
    /\ \E m \in Owned(users, users[ev.sock].roomId) :
          /\ m # ev.sock
          /\ isObject(users[m].server)
          /\ users[m].server # users[ev.sock].server

\* C24: in the messages one handler sends, the acknowledgement comes before
\* every broadcast: createRoom and a successful joinRoom send the reply and
\* then the userCount broadcast, and an upvote with an acknowledgement
\* callback that reaches consensus sends its success reply and then the
\* consensusReached broadcast.
C24_ReplyBeforeBroadcast ==
    /\ \A i, j \in 1..Len(out) :
          (out[i].kind = "reply" /\ out[j].kind # "reply") => i < j
    /\ (ev.op = "createRoom" /\ ~raised) =>
          /\ Len(out) = 2
          /\ out[1].kind = "reply" /\ out[1].sock = ev.sock
          /\ out[2].kind = "userCount" /\ out[2].room = ev.room
    /\ (ev.op = "joinRoom" /\ CountsSent # <<>>) =>
          /\ Len(out) = 2
          /\ out[1].kind = "reply" /\ out[1].sock = ev.sock /\ out[1].body.success
          /\ out[2].kind = "userCount" /\ out[2].room = ev.room
    /\ (ev.op = "upvote" /\ ev.cb /\ ev.sock \in DOMAIN users /\ out # <<>>) =>
          /\ out[1].kind = "reply" /\ out[1].sock = ev.sock /\ out[1].body.success
          /\ \A i \in 2..Len(out) : out[i].kind = "consensusReached"

\* C24 witness: in a room of two an upvote with an acknowledgement callback
\* completed the vote: the success reply, then the consensusReached broadcast.
C24_Witness ==
    /\ ev.op = "upvote" /\ ev.cb
    /\ Len(out) = 2
    /\ out[1].kind = "reply" /\ out[1].body.success
    /\ out[2].kind = "consensusReached"
    /\ Len(rooms[out[2].room]) = 2

====
